---------------------------- MODULE Spec2Model ----------------------------
(***************************************************************************)
(* Executive Telco Network Suite: the dashboard page (src/main.py) and the *)
(* design system it renders with (src/utils/design_system.py).             *)
(*                                                                         *)
(* Three specifications share this module:                                 *)
(*   Spec      the page: a sequence of page loads (Streamlit reruns) of    *)
(*             one process, with the session cache, the 300 s data cache   *)
(*             and the render of each load;                                *)
(*   SpecKpi   the KPI derivation of load_executive_dashboard_data as a    *)
(*             function of the two aggregate rows;                         *)
(*   SpecComp  the presentation components that take a collection.        *)
(*                                                                         *)
(* Numbers are fixed point: AVG_SUCCESS_RATE in thousandths, AVG_SENTIMENT *)
(* in hundredths, percentages with one decimal in tenths of a percent.     *)
(* A nullable column is a sequence: <<>> is None, <<n>> the number n.      *)
(***************************************************************************)
EXTENDS Integers, Sequences, FiniteSets, TLC

VARIABLES
    now,            \* wall clock, seconds
    sessionCache,   \* st.cache_resource slot of get_snowflake_session
    dataCache,      \* st.cache_data slot of load_executive_dashboard_data
    aiModule,       \* "real" | "fallback": which get_ai_analytics is bound
    pc,             \* position of the running page load
    click,          \* the button whose press started this load
    session,        \* main.py's global `session` of this load
    aiHandles,      \* ai_analytics / ai_processor of this load
    ret,            \* (exec_kpis, network_metrics, customer_metrics)
    netOutcome,     \* what the network query did in this load
    custOutcome,    \* what the customer query did in this load
    log,            \* steps of this load, in order
    rendered,       \* blocks written to the page by this load, in order
    reportText,     \* where the text of the on-demand report came from
    buttonsOffered, \* the last finished load rendered the action buttons
    warehouse,      \* number of statements that have changed warehouse data
    netRow,         \* SpecKpi: the network aggregate row
    custRow,        \* SpecKpi: the customer aggregate row
    kpiPc,          \* SpecKpi: "input" | "derived" | "rendered"
    kpiOut,         \* SpecKpi: what the derivation produced
    comp,           \* SpecComp: the component called
    coll,           \* SpecComp: the collection passed to it
    text,           \* SpecComp: the response or message passed to it
    compPc,         \* SpecComp: "call" | "loading" | "returned" | "halted"
    compOut,        \* SpecComp: what the component rendered
    dsDefines,      \* SpecImport: the names utils.design_system defines
    bindings,       \* SpecImport: what each imported name is bound to
    importPc        \* SpecImport: "try" | "except" | "done" | "crashed"

pageVars == <<now, sessionCache, dataCache, aiModule, pc, click, session,
              aiHandles, ret, netOutcome, custOutcome, log, rendered,
              reportText, buttonsOffered, warehouse>>
kpiVars  == <<netRow, custRow, kpiPc, kpiOut>>
compVars == <<comp, coll, text, compPc, compOut>>
importVars == <<dsDefines, bindings, importPc>>
vars     == <<pageVars, kpiVars, compVars, importVars>>

---------------------------------------------------------------------------
(* Bounds of the model and constants of the program.                       *)

\* Largest tower / incident count drawn for a row (besides the named ones).
MaxCount == 8
\* Seconds the clock advances by in one Tick.
TickStep == 100
\* Last instant the clock reaches.
MaxTime == 700
\* Longest collection handed to a component.
MaxItems == 3
\* ttl of @st.cache_data.
CacheTtl == 300
\* Sub-unit scales of the fixed-point columns.
RateScale == 1000
SentimentScale == 100

---------------------------------------------------------------------------
(* Python values.                                                          *)

None == <<>>
Some(n) == <<n>>
\* The value a raising expression stands for; no f-string produces it.
TypeError == "TypeError"

\* Python's `x or d` on a nullable number: None and 0 are falsy.
\* A mutation of it: the `or d` dropped.
PyOrDropped(x, d) == x
PyOr(x, d) == IF x # None /\ x[1] # 0 THEN x ELSE Some(d)

\* Python's max(a, b) on integers.
PyMax(a, b) == IF a >= b THEN a ELSE b

\* num/den rounded to the nearest integer, ties to even, as format() rounds.
RoundHalfEven(num, den) ==
    LET q == num \div den
        r == num % den
    IN  IF 2 * r < den THEN q
        ELSE IF 2 * r > den THEN q + 1
        ELSE IF q % 2 = 0 THEN q ELSE q + 1

\* Three digits, zero padded: a group after a thousands separator.
Pad3(n) ==
    IF n < 10 THEN "00" \o ToString(n)
    ELSE IF n < 100 THEN "0" \o ToString(n)
    ELSE ToString(n)

\* A mutation of it: the "," of the format specification dropped.
FormatThousandsPlain(n) == ToString(n)

\* format(n, ","): thousands separators.
RECURSIVE FormatThousands(_)
FormatThousands(n) ==
    IF n < 0 THEN "-" \o FormatThousands(0 - n)
    ELSE IF n < 1000 THEN ToString(n)
    ELSE FormatThousands(n \div 1000) \o "," \o Pad3(n % 1000)

\* format(x, ".1f") of x = tenths/10.
FormatOneDecimal(tenths) ==
    LET a == IF tenths < 0 THEN 0 - tenths ELSE tenths
    IN  (IF tenths < 0 THEN "-" ELSE "")
            \o ToString(a \div 10) \o "." \o ToString(a % 10)

---------------------------------------------------------------------------
(* The aggregate rows.  Only the columns the page reads are kept.          *)

NetworkRow(total, rate, critical, premium) ==
    [TOTAL_TOWERS |-> total, AVG_SUCCESS_RATE |-> rate,
     CRITICAL_ISSUES |-> critical, PREMIUM_TOWERS |-> premium]

CustomerRow(sentiment) == [AVG_SENTIMENT |-> sentiment]

---------------------------------------------------------------------------
(* The six KPI formulas of load_executive_dashboard_data.  An operand that *)
(* is still None when the arithmetic is applied raises TypeError.          *)

\* (AVG_SUCCESS_RATE or 0) * 100, in tenths of a percent.
NetworkUptimeTenths(rate) == RoundHalfEven(rate * 100 * 10, RateScale)

NetworkUptimeValue(net) ==
    LET r == PyOr(net.AVG_SUCCESS_RATE, 0)
    IN  IF r = None THEN TypeError
        ELSE FormatOneDecimal(NetworkUptimeTenths(r[1])) \o "%"

ActiveInfrastructureValue(net) ==
    LET t == PyOr(net.TOTAL_TOWERS, 0)
    IN  IF t = None THEN TypeError ELSE FormatThousands(t[1])

\* A mutation of the satisfaction formula: the "+ 1" shift left out.
CustomerSatisfactionTenthsUnshifted(sentiment) ==
    RoundHalfEven(sentiment * 50 * 10, SentimentScale)
\* ((AVG_SENTIMENT or 0) + 1) * 50, in tenths of a percent.
CustomerSatisfactionTenths(sentiment) ==
    RoundHalfEven((sentiment + SentimentScale) * 50 * 10, SentimentScale)

CustomerSatisfactionValue(cust) ==
    LET s == PyOr(cust.AVG_SENTIMENT, 0)
    IN  IF s = None THEN TypeError
        ELSE FormatOneDecimal(CustomerSatisfactionTenths(s[1])) \o "%"

RiskIncidentsValue(net) ==
    LET c == PyOr(net.CRITICAL_ISSUES, 0)
    IN  IF c = None THEN TypeError ELSE ToString(c[1])

\* (PREMIUM_TOWERS or 0) / max(TOTAL_TOWERS or 1, 1) * 100, format ".0f".
PremiumPerformancePercent(premium, total) ==
    RoundHalfEven(premium * 100, PyMax(total, 1))

PremiumPerformanceValue(net) ==
    LET p == PyOr(net.PREMIUM_TOWERS, 0)
        t == PyOr(net.TOTAL_TOWERS, 1)
    IN  IF p = None \/ t = None THEN TypeError
        ELSE ToString(PremiumPerformancePercent(p[1], t[1])) \o "%"

\* A mutation of an entry: the trend taken from the value shown.
KpiTrendFromValue(name, value, trend, icon) ==
    [name |-> name, value |-> value, trend |-> Len(value), icon |-> icon]
Kpi(name, value, trend, icon) ==
    [name |-> name, value |-> value, trend |-> trend, icon |-> icon]

\* The exec_kpis dict literal, in insertion order; trends in tenths.
ExecKpis(net, cust) ==
    << Kpi("Network Uptime", NetworkUptimeValue(net), 21, "green"),
       Kpi("Active Infrastructure", ActiveInfrastructureValue(net), 8, "antenna"),
       Kpi("Customer Satisfaction", CustomerSatisfactionValue(cust), -12, "smile"),
       Kpi("Revenue Protection", "$2.8M", 57, "money"),
       Kpi("Risk Incidents", RiskIncidentsValue(net), -83, "warning"),
       Kpi("Premium Performance", PremiumPerformanceValue(net), 34, "star") >>

\* Building the dict: it raises when one of its f-strings raises.
DeriveKpis(net, cust) ==
    LET k == ExecKpis(net, cust)
    IN  IF \E i \in 1..Len(k) : k[i].value = TypeError
        THEN [raised |-> TRUE, kpis |-> <<>>]
        ELSE [raised |-> FALSE, kpis |-> k]

KpiValue(kpis, name) ==
    LET i == CHOOSE j \in 1..Len(kpis) : kpis[j].name = name IN kpis[i].value

---------------------------------------------------------------------------
(* Presentation components that take a collection.  A dict is the sequence *)
(* of its values in insertion order.  What a call rendered:                *)
(*   raised  the call raised instead of returning                          *)
(*   title   a heading was written                                         *)
(*   cols    the number of columns laid out (0: none)                      *)
(*   items   one entry per element written: its place (column index, or    *)
(*           number in a list) and the element                             *)
(*   warning an st.warning was written                                     *)
(*   value   the texts the call returned (none for a component)            *)

Rendering(title, cols, items) ==
    [raised |-> FALSE, title |-> title, cols |-> cols, items |-> items,
     warning |-> FALSE, value |-> <<>>]

Raised == [raised |-> TRUE, title |-> FALSE, cols |-> 0, items |-> <<>>,
           warning |-> FALSE, value |-> <<>>]

PyMin(a, b) == IF a <= b THEN a ELSE b

\* for i, x in enumerate(xs): with cols[i % n]: write x
InColumns(xs, n) == [i \in 1..Len(xs) |-> [place |-> (i - 1) % n, item |-> xs[i]]]

\* for i, x in enumerate(xs, 1): write f"{i}. {x}"
Numbered(xs) == [i \in 1..Len(xs) |-> [place |-> i, item |-> xs[i]]]

\* st.columns(n) raises StreamlitAPIException unless n is a positive integer.
StColumnsRaises(n) == n <= 0

\* main.py stand-ins (bound when the design-system import fails).
StandinAiMetricsDashboard(metrics) ==
    IF StColumnsRaises(Len(metrics)) THEN Raised
    ELSE Rendering(FALSE, Len(metrics), InColumns(metrics, Len(metrics)))

StandinAiRecommendationList(recommendations) ==
    Rendering(TRUE, 0, Numbered(recommendations))

\* A mutation of it: one column per KPI, as the metrics dashboard lays out.
StandinExecutiveDashboardUncapped(kpis) ==
    IF StColumnsRaises(Len(kpis)) THEN Raised
    ELSE Rendering(FALSE, Len(kpis), InColumns(kpis, Len(kpis)))
StandinExecutiveDashboard(kpis) ==
    IF StColumnsRaises(PyMin(4, Len(kpis))) THEN Raised
    ELSE Rendering(FALSE, PyMin(4, Len(kpis)),
                   InColumns(kpis, PyMin(4, Len(kpis))))

StandinExecutiveSummaryCard(metrics) ==
    IF metrics # <<>>
    THEN IF StColumnsRaises(Len(metrics)) THEN Raised
         ELSE Rendering(TRUE, Len(metrics), InColumns(metrics, Len(metrics)))
    ELSE Rendering(TRUE, 0, <<>>)

\* utils/design_system.py versions.
DsAiRecommendationList(recommendations) ==
    IF recommendations = <<>> THEN Rendering(FALSE, 0, <<>>)
    ELSE Rendering(TRUE, 0, Numbered(recommendations))

DsAiMetricsDashboard(metrics) ==
    IF metrics = <<>> THEN Rendering(FALSE, 0, <<>>)
    ELSE IF StColumnsRaises(PyMin(4, Len(metrics))) THEN Raised
    ELSE Rendering(FALSE, PyMin(4, Len(metrics)),
                   InColumns(metrics, PyMin(4, Len(metrics))))

DsMetricGrid(metrics, columns) ==
    IF StColumnsRaises(columns) THEN Raised
    ELSE Rendering(FALSE, columns, InColumns(metrics, columns))

---------------------------------------------------------------------------
(* Presentation components that take a text, None when it is absent.       *)

\* One text written as a block of its own.
Block(t) == <<[place |-> 0, item |-> t]>>

\* A heading was written and the next statement raised.
RaisedAfterTitle ==
    [raised |-> TRUE, title |-> TRUE, cols |-> 0, items |-> <<>>,
     warning |-> FALSE, value |-> <<>>]

\* st.warning(...) and nothing else.
WarningOnly ==
    [raised |-> FALSE, title |-> FALSE, cols |-> 0, items |-> <<>>,
     warning |-> TRUE, value |-> <<>>]

\* str(x) inside an f-string or st.write: None reads "None".
PyStr(t) == IF t = None THEN "None" ELSE t[1]

\* s.replace('\\n', '\n'): every backslash followed by n becomes a line feed.
RECURSIVE Unescape(_)
Unescape(s) ==
    IF Len(s) < 2 THEN s
    ELSE IF SubSeq(s, 1, 2) = "\\n"
         THEN "\n" \o Unescape(SubSeq(s, 3, Len(s)))
         ELSE SubSeq(s, 1, 1) \o Unescape(SubSeq(s, 2, Len(s)))

\* main.py 45-48: the title, then `'\\n' in response`, which raises
\* TypeError on None, then st.write of the unescaped text.
StandinFormatAiResponse(response) ==
    IF response = None THEN RaisedAfterTitle
    ELSE Rendering(TRUE, 0, Block(Unescape(response[1])))

\* main.py 103-105: the title and st.write(response), whatever it is.
StandinFormatAiResponseUtil(response) ==
    Rendering(TRUE, 0, Block(PyStr(response)))

\* design_system.py 733-751: `if response:` title and block, else a warning.
DsFormatAiResponse(response) ==
    IF response # None /\ response[1] # ""
    THEN Rendering(TRUE, 0, Block(response[1]))
    ELSE WarningOnly

\* main.py 36-39: the title, then the insight through the same unescaping.
StandinAiInsightsCard(insight) ==
    IF insight = None THEN RaisedAfterTitle
    ELSE Rendering(TRUE, 0, Block(Unescape(insight[1])))

\* design_system.py 536-564: one card with the title and the insight as
\* the f-string prints it.
DsAiInsightsCard(insight) == Rendering(TRUE, 0, Block(PyStr(insight)))

\* main.py 49-50 and design_system.py 566-592: the message in one block.
StandinAiLoadingSpinner(message) == Rendering(FALSE, 0, Block(PyStr(message)))

DsAiLoadingSpinner(message) == Rendering(FALSE, 0, Block(PyStr(message)))

---------------------------------------------------------------------------
(* Banners and boxes chosen by a type argument, None when it is absent.    *)
(* The element written is named by the Streamlit call that writes it.      *)

Banner(call) ==
    [raised |-> FALSE, title |-> FALSE, cols |-> 0, items |-> Block(call),
     warning |-> call = "st.warning", value |-> <<>>]

\* A mutation of the banner: the final `else:` branch left out.
StandinExecutiveAlertBannerNoElse(alert_type) ==
    IF alert_type = Some("success") THEN Banner("st.success")
    ELSE IF alert_type = Some("warning") THEN Banner("st.warning")
    ELSE IF alert_type = Some("error") THEN Banner("st.error")
    ELSE Rendering(FALSE, 0, <<>>)
\* main.py 75-83.
StandinExecutiveAlertBanner(alert_type) ==
    IF alert_type = Some("success") THEN Banner("st.success")
    ELSE IF alert_type = Some("warning") THEN Banner("st.warning")
    ELSE IF alert_type = Some("error") THEN Banner("st.error")
    ELSE Banner("st.info")

\* The icons dict of create_info_box, the emoji named in words.
Icons == [info |-> "information", success |-> "check_mark",
          warning |-> "warning_sign", error |-> "cross_mark"]

\* icons.get(box_type, default)
IconsGet(box_type, default) ==
    IF box_type # None /\ box_type[1] \in DOMAIN Icons
    THEN Icons[box_type[1]] ELSE default

\* design_system.py 307-321: one div of class "info-box <box_type>" with
\* the icon looked up.
DsInfoBox(box_type) ==
    Rendering(FALSE, 0,
              Block([icon |-> IconsGet(box_type, "information"),
                     class |-> PyStr(box_type)]))

---------------------------------------------------------------------------
(* execute_query_with_loading (design_system.py 438-455).  What it does to *)
(* the page is kept as the sequence of its events, numbered in order.      *)

\* The events written so far.
Events(out) == [i \in 1..Len(out.items) |-> out.items[i].item]

\* loading_placeholder = st.empty(); show_loading_state(description)
LoadingShown == <<"placeholder_shown">>

\* try: session.sql(query).to_pandas(); loading_placeholder.empty()
QueryReturned == <<"query_issued", "placeholder_cleared">>

\* A mutation of the except branch: the placeholder left on the page.
QueryRaisedNotCleared == <<"query_issued", "error_box">>
\* except Exception: loading_placeholder.empty(); create_info_box(...)
QueryRaised == <<"query_issued", "placeholder_cleared", "error_box">>

\* The call after more events, returning the rows given (none: an empty
\* DataFrame, or nothing returned yet).
WithEvents(out, events, rows) ==
    [raised |-> FALSE, title |-> FALSE, cols |-> 0,
     items |-> Numbered(Events(out) \o events),
     warning |-> FALSE, value |-> rows]

---------------------------------------------------------------------------
(* The placeholders bound when utils.aisql_functions cannot be imported    *)
(* (main.py 89-102).  Every method ignores its arguments.  The emoji that  *)
(* opens the first text is left out.                                       *)

Returned(texts) ==
    [raised |-> FALSE, title |-> FALSE, cols |-> 0, items |-> <<>>,
     warning |-> FALSE, value |-> texts]

FallbackGenerateExecutiveSummary ==
    Returned(<<"AI analysis functionality is being updated. Please refresh the page in a few minutes to access the full AI capabilities!">>)

\* The dict's values in insertion order: root_causes, recommendations.
FallbackAnalyzeNetworkIssues ==
    Returned(<<"AI root cause analysis temporarily unavailable",
               "Please check back shortly for AI-powered recommendations">>)

FallbackAiComplete ==
    Returned(<<"AI completion service is being updated. Full AI features will be available shortly!">>)

---------------------------------------------------------------------------
(* The page: main.py from top to bottom, once per page load.               *)

\* The names main.py's first import asks the design system for, and the
\* ones design_system.py defines.  One missing name fails the whole import.
BaseComponents ==
    {"inject_custom_css", "create_page_header", "create_metric_card",
     "create_info_box", "get_snowflake_session", "create_metric_grid",
     "create_sidebar_navigation", "add_page_footer",
     "execute_query_with_loading"}

AiExecutiveComponents ==
    {"create_ai_insights_card", "create_ai_metrics_dashboard",
     "format_ai_response", "create_ai_loading_spinner",
     "create_ai_recommendation_list", "create_executive_dashboard",
     "create_executive_navigation_grid", "create_executive_summary_card",
     "create_executive_alert_banner", "create_executive_demo_controller"}

DesignSystemDefines ==
    BaseComponents \cup
    {"create_ai_insights_card", "create_ai_metrics_dashboard",
     "format_ai_response", "create_ai_loading_spinner",
     "create_ai_recommendation_list"}

\* try: from utils.design_system import (all) / except ImportError: stand-ins
Binding(name) ==
    IF (BaseComponents \cup AiExecutiveComponents) \subseteq DesignSystemDefines
    THEN "design_system"
    ELSE IF name \in BaseComponents THEN "design_system" ELSE "standin"

\* The two import lists in the order they are written (main.py 19-26 and
\* 30-34).
BaseImportList ==
    <<"inject_custom_css", "create_page_header", "create_metric_card",
      "create_info_box", "get_snowflake_session", "create_metric_grid",
      "create_sidebar_navigation", "add_page_footer",
      "execute_query_with_loading">>

FullImportList ==
    BaseImportList \o
    <<"create_ai_insights_card", "create_ai_metrics_dashboard",
      "format_ai_response", "create_ai_loading_spinner",
      "create_ai_recommendation_list", "create_executive_dashboard",
      "create_executive_navigation_grid", "create_executive_summary_card",
      "create_executive_alert_banner", "create_executive_demo_controller">>

\* `from module import (n1, n2, ...)`: the names are bound one after the
\* other; the first one the module lacks raises ImportError and leaves the
\* earlier ones bound.
RECURSIVE ImportFrom(_, _, _)
ImportFrom(names, defined, b) ==
    IF names = <<>> THEN [raised |-> FALSE, bound |-> b]
    ELSE IF Head(names) \notin defined THEN [raised |-> TRUE, bound |-> b]
    ELSE ImportFrom(Tail(names), defined,
                    [b EXCEPT ![Head(names)] = "design_system"])

\* A mutation of the except block: a stand-in defined only for a name the
\* failed import had not bound.
DefineStandinsIfUnbound(b) ==
    [n \in DOMAIN b |->
        IF n \in AiExecutiveComponents /\ b[n] = "unbound" THEN "standin"
        ELSE b[n]]
\* The ten `def` statements of the except block (main.py 36-85): each
\* rebinds its name, whatever it was bound to.
DefineStandins(b) ==
    [n \in DOMAIN b |-> IF n \in AiExecutiveComponents THEN "standin" ELSE b[n]]

\* No import has run.
Unbound == [n \in BaseComponents \cup AiExecutiveComponents |-> "unbound"]

\* A mutation of the controller: a demonstration reported as running.
DemoStateActive == [current_scenario |-> "baseline", demo_active |-> TRUE]
\* create_executive_demo_controller, stand-in.
DemoState == [current_scenario |-> "baseline", demo_active |-> FALSE]

\* What the factories of the real utils.aisql_functions can do when called.
AiFactoryOutcomes == {"ok", "raise"}

\* The rows the warehouse answers with in the page model.
NetworkRows ==
    { NetworkRow(Some(1000), Some(950), Some(3), Some(950)),
      NetworkRow(None, None, None, None) }

CustomerRows == { CustomerRow(Some(50)), CustomerRow(None) }

\* session.sql(q).collect(): raises, or returns a list of rows.
QueryOutcomes(rows) ==
    {[kind |-> "raise", rows |-> <<>>], [kind |-> "rows", rows |-> <<>>]}
        \cup {[kind |-> "rows", rows |-> <<r>>] : r \in rows}

OutcomeLabel(q) ==
    IF q.kind = "raise" THEN "raised"
    ELSE IF q.rows = <<>> THEN "empty" ELSE "row"

\* The kind of statement a step of the load sends through session.sql:
\* both query texts are a single SELECT; the derivation sends nothing.
\* A mutation of it: the network statement rewritten as a MERGE.
StatementVerbMerge(step) ==
    IF step = "network_query" THEN "MERGE"
    ELSE IF step = "customer_query" THEN "SELECT" ELSE "none"
StatementVerb(step) ==
    IF step \in {"network_query", "customer_query"} THEN "SELECT" ELSE "none"

\* How many of the steps change warehouse data.
Writes(steps) ==
    Cardinality({i \in 1..Len(steps) :
                    StatementVerb(steps[i]) \notin {"SELECT", "none"}})

\* return None, None, None
Unavailable == [kpis |-> None, net |-> None, cust |-> None]

\* Python truthiness of a dict, a Row or None.
Truthy(x) == x # <<>>

LoadResult(value, error, net, cust, steps) ==
    [value |-> value, error |-> error, net |-> net, cust |-> cust,
     steps |-> steps]

\* A mutation of the body: KPIs derived as soon as the network row is there.
LoadBodyNetworkOnly(nq, cq) ==
    IF nq.kind = "raise"
    THEN LoadResult(Unavailable, TRUE, "raised", "not_issued",
                    <<"network_query">>)
    ELSE IF cq.kind = "raise"
    THEN LoadResult(Unavailable, TRUE, OutcomeLabel(nq), "raised",
                    <<"network_query", "customer_query">>)
    ELSE IF nq.rows # <<>>
    THEN LoadResult([kpis |-> ExecKpis(nq.rows[1], CustomerRow(Some(0))),
                     net |-> Some(nq.rows[1]), cust |-> cq.rows],
                    FALSE, OutcomeLabel(nq), OutcomeLabel(cq),
                    <<"network_query", "customer_query", "derive">>)
    ELSE LoadResult(Unavailable, FALSE, OutcomeLabel(nq), OutcomeLabel(cq),
                    <<"network_query", "customer_query">>)

\* A mutation of the body: the KPIs derived from the network row before the
\* customer query is issued.
LoadBodyEagerDerive(nq, cq) ==
    IF nq.kind = "raise"
    THEN LoadResult(Unavailable, TRUE, "raised", "not_issued",
                    <<"network_query">>)
    ELSE IF cq.kind = "raise"
    THEN LoadResult(Unavailable, TRUE, OutcomeLabel(nq), "raised",
                    <<"network_query", "derive", "customer_query">>)
    ELSE IF nq.rows # <<>> /\ cq.rows # <<>>
    THEN LET d == DeriveKpis(nq.rows[1], cq.rows[1])
         IN  LoadResult([kpis |-> d.kpis, net |-> Some(nq.rows[1]),
                         cust |-> Some(cq.rows[1])],
                        FALSE, "row", "row",
                        <<"network_query", "derive", "customer_query">>)
    ELSE LoadResult(Unavailable, FALSE, OutcomeLabel(nq), OutcomeLabel(cq),
                    <<"network_query", "derive", "customer_query">>)

\* A mutation of the body: an early return when the network query gave no
\* row, the customer query not issued.
LoadBodyEarlyReturn(nq, cq) ==
    IF nq.kind = "raise"
    THEN LoadResult(Unavailable, TRUE, "raised", "not_issued",
                    <<"network_query">>)
    ELSE IF nq.rows = <<>>
    THEN LoadResult(Unavailable, FALSE, "empty", "not_issued",
                    <<"network_query">>)
    ELSE IF cq.kind = "raise"
    THEN LoadResult(Unavailable, TRUE, "row", "raised",
                    <<"network_query", "customer_query">>)
    ELSE IF cq.rows # <<>>
    THEN LoadResult([kpis |-> ExecKpis(nq.rows[1], cq.rows[1]),
                     net |-> Some(nq.rows[1]), cust |-> Some(cq.rows[1])],
                    FALSE, "row", "row",
                    <<"network_query", "customer_query", "derive">>)
    ELSE LoadResult(Unavailable, FALSE, "row", "empty",
                    <<"network_query", "customer_query">>)

\* The body of load_executive_dashboard_data, run on a cache miss.
LoadBody(nq, cq) ==
    IF nq.kind = "raise"
    THEN LoadResult(Unavailable, TRUE, "raised", "not_issued",
                    <<"network_query">>)
    ELSE IF cq.kind = "raise"
    THEN LoadResult(Unavailable, TRUE, OutcomeLabel(nq), "raised",
                    <<"network_query", "customer_query">>)
    ELSE IF nq.rows # <<>> /\ cq.rows # <<>>
    THEN LET d == DeriveKpis(nq.rows[1], cq.rows[1])
         IN  IF d.raised
             THEN LoadResult(Unavailable, TRUE, "row", "row",
                             <<"network_query", "customer_query", "derive">>)
             ELSE LoadResult([kpis |-> d.kpis, net |-> Some(nq.rows[1]),
                              cust |-> Some(cq.rows[1])],
                             FALSE, "row", "row",
                             <<"network_query", "customer_query", "derive">>)
    ELSE LoadResult(Unavailable, FALSE, OutcomeLabel(nq), OutcomeLabel(cq),
                    <<"network_query", "customer_query">>)

\* st.cache_data(ttl=300): an entry is served while younger than its ttl.
\* A mutation of it: an entry that never expires.
FreshForever(entry, t) == entry # None
Fresh(entry, t) == entry # None /\ t < entry[1].at + CacheTtl

\* st.cache_data stores what the function returned, whatever it is, with
\* the elements it wrote.
Store(r, t) == Some([value |-> r.value, at |-> t, error |-> r.error])

Finished == {"idle", "done", "halted", "crashed"}

PageInit ==
    /\ now = 0
    /\ sessionCache = None
    /\ dataCache = None
    /\ aiModule \in {"real", "fallback"}
    /\ pc = "idle"
    /\ warehouse = 0
    /\ click = "none"
    /\ session = None
    /\ aiHandles = "unset"
    /\ ret = Unavailable
    /\ netOutcome = "not_issued"
    /\ custOutcome = "not_issued"
    /\ log = <<>>
    /\ rendered = <<>>
    /\ reportText = "none"
    /\ buttonsOffered = FALSE

\* A page action leaves the other two specifications' variables alone.
PageOnly == UNCHANGED <<kpiVars, compVars, importVars>>

\* A rerun starts: set_page_config, CSS, sidebar, demo controller
\* (main.py 107-122).  A button can be pressed only where one was offered.
StartLoad ==
    /\ PageOnly
    /\ UNCHANGED warehouse
    /\ pc \in Finished
    /\ \E c \in {"none"} \cup
                (IF buttonsOffered THEN {"strategic", "risk"} ELSE {}) :
           click' = c
    /\ pc' = "session"
    /\ session' = None
    /\ aiHandles' = "unset"
    /\ ret' = Unavailable
    /\ netOutcome' = "not_issued"
    /\ custOutcome' = "not_issued"
    /\ log' = <<>>
    /\ rendered' = <<"css", "sidebar">>
    /\ reportText' = "none"
    /\ buttonsOffered' = FALSE
    /\ UNCHANGED <<now, sessionCache, dataCache, aiModule>>

\* session = get_snowflake_session(), behind st.cache_resource.
GetSessionCached ==
    /\ PageOnly
    /\ UNCHANGED warehouse
    /\ pc = "session"
    /\ sessionCache # None
    /\ session' = sessionCache
    /\ pc' = "header"
    /\ log' = Append(log, "session_cached")
    /\ UNCHANGED <<now, sessionCache, dataCache, aiModule, click, aiHandles,
                   ret, netOutcome, custOutcome, rendered, reportText,
                   buttonsOffered>>

\* A mutation of the acquisition: the st.cache_resource decorator left out,
\* get_active_session() called by every load.
GetSessionUncached ==
    /\ PageOnly
    /\ UNCHANGED warehouse
    /\ pc = "session"
    /\ sessionCache' = Some("active_session")
    /\ session' = Some("active_session")
    /\ pc' = "header"
    /\ log' = Append(log, "session_acquired")
    /\ UNCHANGED <<now, dataCache, aiModule, click, aiHandles, ret,
                   netOutcome, custOutcome, rendered, reportText,
                   buttonsOffered>>

GetSessionAcquired ==
    /\ PageOnly
    /\ UNCHANGED warehouse
    /\ pc = "session"
    /\ sessionCache = None
    /\ sessionCache' = Some("active_session")
    /\ session' = Some("active_session")
    /\ pc' = "header"
    /\ log' = Append(log, "session_acquired")
    /\ UNCHANGED <<now, dataCache, aiModule, click, aiHandles, ret,
                   netOutcome, custOutcome, rendered, reportText,
                   buttonsOffered>>

\* A mutation of the failure: the failed outcome stored by
\* st.cache_resource as if it were the session.
GetSessionFailedMemoized ==
    /\ PageOnly
    /\ UNCHANGED warehouse
    /\ pc = "session"
    /\ sessionCache = None
    /\ sessionCache' = Some("None")
    /\ rendered' = Append(rendered, "error_box")
    /\ pc' = "halted"
    /\ log' = Append(log, "session_failed")
    /\ UNCHANGED <<now, dataCache, aiModule, click, session, aiHandles, ret,
                   netOutcome, custOutcome, reportText, buttonsOffered>>

\* except Exception: create_info_box(..., "error"); st.stop()
GetSessionFailed ==
    /\ PageOnly
    /\ UNCHANGED warehouse
    /\ pc = "session"
    /\ sessionCache = None
    /\ rendered' = Append(rendered, "error_box")
    /\ pc' = "halted"
    /\ log' = Append(log, "session_failed")
    /\ UNCHANGED <<now, sessionCache, dataCache, aiModule, click, session,
                   aiHandles, ret, netOutcome, custOutcome, reportText,
                   buttonsOffered>>

\* create_page_header, then the demo banner if demo_active.
RenderHeader ==
    /\ PageOnly
    /\ UNCHANGED warehouse
    /\ pc = "header"
    /\ rendered' = IF DemoState.demo_active
                   THEN rendered \o <<"page_header", "demo_banner">>
                   ELSE Append(rendered, "page_header")
    /\ pc' = "ai_init"
    /\ UNCHANGED <<now, sessionCache, dataCache, aiModule, click, session,
                   aiHandles, ret, netOutcome, custOutcome, log, reportText,
                   buttonsOffered>>

\* ai_analytics = get_ai_analytics(session); ai_processor = ...: no handler
\* surrounds the two calls.
AiInit ==
    /\ PageOnly
    /\ UNCHANGED warehouse
    /\ pc = "ai_init"
    /\ \E o \in (IF aiModule = "fallback" THEN {"ok"} ELSE AiFactoryOutcomes) :
           IF o = "ok"
           THEN /\ aiHandles' = IF aiModule = "fallback" THEN "placeholder"
                                ELSE "real"
                /\ pc' = "load"
                /\ rendered' = rendered
           ELSE /\ aiHandles' = "unset"
                /\ pc' = "crashed"
                /\ rendered' = Append(rendered, "uncaught_exception")
    /\ UNCHANGED <<now, sessionCache, dataCache, aiModule, click, session,
                   ret, netOutcome, custOutcome, log, reportText,
                   buttonsOffered>>

\* load_executive_dashboard_data() served from the cache: the stored value
\* is returned and the stored elements are replayed.
LoadCached ==
    /\ PageOnly
    /\ UNCHANGED warehouse
    /\ pc = "load"
    /\ Fresh(dataCache, now)
    /\ ret' = dataCache[1].value
    /\ rendered' = IF dataCache[1].error THEN Append(rendered, "load_error")
                   ELSE rendered
    /\ log' = log \o <<"cache_read", "cache_hit">>
    /\ pc' = "gate"
    /\ UNCHANGED <<now, sessionCache, dataCache, aiModule, click, session,
                   aiHandles, netOutcome, custOutcome, reportText,
                   buttonsOffered>>

\* load_executive_dashboard_data() on a miss or an expired entry: the body
\* runs and what it returns is stored.
LoadMiss ==
    /\ PageOnly
    /\ pc = "load"
    /\ ~Fresh(dataCache, now)
    /\ \E nq \in QueryOutcomes(NetworkRows), cq \in QueryOutcomes(CustomerRows) :
           LET r == LoadBody(nq, cq)
           IN  /\ ret' = r.value
               /\ netOutcome' = r.net
               /\ custOutcome' = r.cust
               /\ rendered' = IF r.error THEN Append(rendered, "load_error")
                              ELSE rendered
               /\ dataCache' = Store(r, now)
               /\ warehouse' = warehouse + Writes(r.steps)
               /\ log' = log \o <<"cache_read",
                                   IF dataCache = None THEN "cache_miss"
                                   ELSE "cache_expired">> \o r.steps
    /\ pc' = "gate"
    /\ UNCHANGED <<now, sessionCache, aiModule, click, session, aiHandles,
                   reportText, buttonsOffered>>

\* if exec_kpis and network_metrics and customer_metrics:
Live(r) == Truthy(r.kpis) /\ Truthy(r.net) /\ Truthy(r.cust)

\* The four preview KPIs and the four metrics of each summary card.
PreviewKpis == <<"Network Performance", "Revenue Protection",
                 "AI Efficiency", "Risk Mitigation">>
SummaryMetrics == <<"ROI", "Efficiency", "Risk Reduction", "Revenue Protected">>
ExecMetrics == <<"Models Available", "Response Time", "Accuracy Rate",
                 "Uptime SLA">>

\* A mutation of the live branch: the `else:` lost, the preview rendered
\* after the live blocks.
LiveBlocksThenPreview(c) ==
    <<"kpi_heading", "kpi_grid", "summary_card", "action_center">>
        \o (IF c = "strategic" THEN <<"ai_spinner", "insights_card">>
            ELSE IF c = "risk" THEN <<"ai_spinner", "recommendation_list">>
            ELSE <<>>)
        \o <<"warning_banner", "preview_heading", "preview_grid",
             "preview_card">>
\* The blocks of the live branch (main.py 227-321); the two buttons render
\* text built in place.
LiveBlocks(c) ==
    <<"kpi_heading", "kpi_grid", "summary_card", "action_center">>
        \o (IF c = "strategic" THEN <<"ai_spinner", "insights_card">>
            ELSE IF c = "risk" THEN <<"ai_spinner", "recommendation_list">>
            ELSE <<>>)

\* A mutation of the else branch: the warning banner left out.
FallbackBlocksNoBanner == <<"preview_heading", "preview_grid", "preview_card">>
\* The blocks of the else branch (main.py 324-362).
FallbackBlocks ==
    <<"warning_banner", "preview_heading", "preview_grid", "preview_card">>

RenderLive ==
    /\ PageOnly
    /\ UNCHANGED warehouse
    /\ pc = "gate"
    /\ Live(ret)
    /\ IF \/ StandinExecutiveDashboard(ret.kpis).raised
          \/ StandinExecutiveSummaryCard(SummaryMetrics).raised
       THEN /\ pc' = "crashed"
            /\ rendered' = Append(rendered, "uncaught_exception")
            /\ UNCHANGED <<reportText, buttonsOffered>>
       ELSE /\ pc' = "nav"
            /\ rendered' = rendered \o LiveBlocks(click)
            /\ reportText' = IF click = "none" THEN "none" ELSE "hardcoded"
            /\ buttonsOffered' = TRUE
    /\ log' = Append(log, "render")
    /\ UNCHANGED <<now, sessionCache, dataCache, aiModule, click, session,
                   aiHandles, ret, netOutcome, custOutcome>>

RenderFallback ==
    /\ PageOnly
    /\ UNCHANGED warehouse
    /\ pc = "gate"
    /\ ~Live(ret)
    /\ IF \/ StandinExecutiveDashboard(PreviewKpis).raised
          \/ StandinExecutiveSummaryCard(ExecMetrics).raised
       THEN /\ pc' = "crashed"
            /\ rendered' = Append(rendered, "uncaught_exception")
       ELSE /\ pc' = "nav"
            /\ rendered' = rendered \o FallbackBlocks
    /\ log' = Append(log, "render")
    /\ UNCHANGED <<now, sessionCache, dataCache, aiModule, click, session,
                   aiHandles, ret, netOutcome, custOutcome, reportText,
                   buttonsOffered>>

\* Navigation grid, technology panels, success tiles, footer (364-530).
RenderRest ==
    /\ PageOnly
    /\ UNCHANGED warehouse
    /\ pc = "nav"
    /\ rendered' = rendered \o <<"nav_grid", "tech_panels", "success_tiles",
                                 "footer">>
    /\ pc' = "done"
    /\ UNCHANGED <<now, sessionCache, dataCache, aiModule, click, session,
                   aiHandles, ret, netOutcome, custOutcome, log, reportText,
                   buttonsOffered>>

\* Time passes between two page loads.
Tick ==
    /\ PageOnly
    /\ UNCHANGED warehouse
    /\ pc \in Finished
    /\ now + TickStep <= MaxTime
    /\ now' = now + TickStep
    /\ UNCHANGED <<sessionCache, dataCache, aiModule, pc, click, session,
                   aiHandles, ret, netOutcome, custOutcome, log, rendered,
                   reportText, buttonsOffered>>

\* The variables of the other two specifications, at rest.
KpiIdle ==
    /\ netRow = NetworkRow(None, None, None, None)
    /\ custRow = CustomerRow(None)
    /\ kpiPc = "input"
    /\ kpiOut = [raised |-> FALSE, kpis |-> <<>>]

CompIdle ==
    /\ comp = "none"
    /\ coll = <<>>
    /\ text = None
    /\ compPc = "call"
    /\ compOut = Rendering(FALSE, 0, <<>>)

\* The import block as the page runs it, with design_system.py as it is.
ImportIdle ==
    /\ dsDefines = DesignSystemDefines
    /\ bindings = [n \in BaseComponents \cup AiExecutiveComponents |->
                      Binding(n)]
    /\ importPc = "done"

Init == PageInit /\ KpiIdle /\ CompIdle /\ ImportIdle

Next ==
    \/ StartLoad
    \/ GetSessionCached
    \/ GetSessionAcquired
    \/ GetSessionFailed
    \/ RenderHeader
    \/ AiInit
    \/ LoadCached
    \/ LoadMiss
    \/ RenderLive
    \/ RenderFallback
    \/ RenderRest
    \/ Tick

Spec == Init /\ [][Next]_vars

---------------------------------------------------------------------------
(* Properties of the page.                                                 *)

Has(seq, x) == \E i \in 1..Len(seq) : seq[i] = x

\* seq holds the elements of sub, in that order, next to each other.
HasRun(seq, sub) ==
    \E k \in 0..(Len(seq) - Len(sub)) :
        \A i \in 1..Len(sub) : seq[k + i] = sub[i]

AfterLoad == {"gate", "nav", "done"}

\* What the fallback preview is expected to show, in order.
PreviewRun ==
    <<"warning_banner", "preview_heading", "preview_grid", "preview_card">>

\* A query of this load raised or returned no rows.
QueryFailed ==
    \/ netOutcome \in {"raised", "empty"}
    \/ custOutcome \in {"raised", "empty"}

\* C1: the cache slot is empty or holds a successful (KPIs, network row,
\* customer row) result, so that a failed load is never served from the
\* cache and the next load queries again.
C1_CacheHoldsOnlySuccess ==
    dataCache = None \/ Live(dataCache[1].value)

\* C2 as stated: a load less than 300 s after a successful aggregation
\* returns the cached values and issues no query; the first load at or
\* after 300 s issues both queries and its result replaces the slot.
C2_RequeryIssuesBoth ==
    [][ (pc = "load" /\ pc' = "gate" /\ dataCache # None
            /\ Live(dataCache[1].value))
        => IF now < dataCache[1].at + CacheTtl
           THEN /\ ret' = dataCache[1].value
                /\ netOutcome' = "not_issued"
                /\ custOutcome' = "not_issued"
                /\ dataCache' = dataCache
           ELSE /\ netOutcome' # "not_issued"
                /\ custOutcome' # "not_issued"
                /\ dataCache'[1].value = ret'
                /\ dataCache'[1].at = now ]_vars

\* C2, amended: as above, but on the re-query the customer query is issued
\* only if the network query did not raise.
C2_CacheTtl ==
    [][ (pc = "load" /\ pc' = "gate" /\ dataCache # None
            /\ Live(dataCache[1].value))
        => IF now < dataCache[1].at + CacheTtl
           THEN /\ ret' = dataCache[1].value
                /\ netOutcome' = "not_issued"
                /\ custOutcome' = "not_issued"
                /\ dataCache' = dataCache
           ELSE /\ netOutcome' # "not_issued"
                /\ (netOutcome' # "raised" => custOutcome' # "not_issued")
                /\ (netOutcome' = "raised" => custOutcome' = "not_issued")
                /\ dataCache'[1].value = ret'
                /\ dataCache'[1].at = now ]_vars

\* A load served from a successful entry that is not yet 300 s old.
C2_Witness ==
    /\ pc = "gate"
    /\ Has(log, "cache_hit")
    /\ Live(ret)
    /\ netOutcome = "not_issued"
    /\ now > dataCache[1].at

\* C4: a load in which a query raised or returned no rows returns the
\* all-absent triple and renders the fallback preview; the KPI grid is
\* rendered only from KPIs derived from two present rows; the triple is
\* all present or all absent.
C4_NoPartialKpis ==
    /\ (pc \in AfterLoad /\ QueryFailed) => ret = Unavailable
    /\ (pc \in AfterLoad) =>
          (ret = Unavailable \/
             (/\ Live(ret)
              /\ ret.kpis = DeriveKpis(ret.net[1], ret.cust[1]).kpis))
    /\ Has(rendered, "kpi_grid") => Live(ret)
    /\ (pc \in {"nav", "done"} /\ ret = Unavailable) =>
          (HasRun(rendered, PreviewRun) /\ ~Has(rendered, "kpi_grid"))

\* A finished load whose network row was there and whose customer query
\* returned no rows, rendered as the fallback preview.
C4_Witness ==
    /\ pc = "done"
    /\ netOutcome = "row"
    /\ custOutcome = "empty"
    /\ Has(rendered, "warning_banner")

\* C6 as stated: whenever the warehouse is unavailable for a load (no
\* session, or a query raised or returned no rows) the load neither
\* crashes nor halts and renders banner, preview, navigation and footer.
C6_NeverHalts ==
    (Has(log, "session_failed") \/ QueryFailed) =>
        /\ pc \notin {"halted", "crashed"}
        /\ pc = "done" =>
              /\ HasRun(rendered, PreviewRun)
              /\ HasRun(rendered, <<"nav_grid", "tech_panels",
                                    "success_tiles", "footer">>)

\* C6, amended: a load in which a query raised or returned no rows neither
\* crashes nor halts: it renders the warning banner and the preview and goes
\* on to the footer; a load that cannot obtain the session renders an error
\* box and halts there.
C6_FallbackOrHalt ==
    /\ QueryFailed =>
          /\ pc \in AfterLoad
          /\ pc = "gate" => (~Live(ret) /\ ENABLED RenderFallback)
          /\ pc = "nav" =>
                (HasRun(rendered, PreviewRun) /\ ENABLED RenderRest)
          /\ pc = "done" =>
                /\ HasRun(rendered, PreviewRun)
                /\ HasRun(rendered, <<"nav_grid", "tech_panels",
                                      "success_tiles", "footer">>)
    /\ Has(log, "session_failed") =>
          /\ pc = "halted"
          /\ rendered = <<"css", "sidebar", "error_box">>

\* A load whose network query raised, rendered down to the footer.
C6_Witness ==
    /\ pc = "done"
    /\ netOutcome = "raised"
    /\ Has(rendered, "warning_banner")
    /\ Has(rendered, "footer")

\* C7: no failure of the AI integration ends a page load: past the AI
\* initialisation the page holds the real handles or the placeholders.
C7_AiFailureCaught ==
    /\ ~Has(rendered, "uncaught_exception")
    /\ pc \in {"load", "gate", "nav", "done"} =>
          aiHandles \in {"real", "placeholder"}

\* C8: in the live branch a pressed report button has the AI collaborator
\* called before the report is rendered and shows the text it returned;
\* hard-coded text is shown only with the placeholders bound.
C8_ReportFromAi ==
    /\ (pc \in {"nav", "done"} /\ Live(ret) /\ click # "none"
            /\ aiHandles = "real") =>
          (Has(log, "ai_call") /\ reportText = "ai")
    /\ reportText = "hardcoded" => aiHandles = "placeholder"

\* The steps of a load and the blocks that show KPIs, a summary or the
\* preview.
Queries == {"network_query", "customer_query"}
DataBlocks ==
    {"kpi_heading", "kpi_grid", "summary_card", "warning_banner",
     "preview_heading", "preview_grid", "preview_card"}

\* Every occurrence of a step of A lies before every occurrence of one of B.
Before(A, B) ==
    \A i, j \in 1..Len(log) : (log[i] \in A /\ log[j] \in B) => i < j

\* C12: within a load the cache is consulted before a query is issued,
\* both queries have completed before the KPIs are derived, the derivation
\* has completed before a KPI, summary or preview block is rendered, and
\* each step happens once, one after the other.
C12_StepOrder ==
    /\ Before({"cache_read"}, Queries \cup {"derive", "render"})
    /\ Before(Queries, {"derive", "render"})
    /\ Before({"derive"}, {"render"})
    /\ (\E q \in Queries : Has(log, q)) => Has(log, "cache_read")
    /\ Has(log, "derive") => \A q \in Queries : Has(log, q)
    /\ (\E b \in DataBlocks : Has(rendered, b)) =>
          (Has(log, "cache_read") /\ log[Len(log)] = "render")
    /\ \A i, j \in 1..Len(log) :
          (log[i] = log[j]
             /\ log[i] \in Queries \cup {"cache_read", "derive", "render"})
          => i = j

\* A load that missed the cache, ran both queries, derived and rendered.
C12_Witness ==
    /\ pc = "done"
    /\ Has(log, "cache_miss")
    /\ Has(log, "network_query") /\ Has(log, "customer_query")
    /\ Has(log, "derive") /\ Has(log, "render")
    /\ Has(rendered, "kpi_grid")

\* C13: no session exists before the first load asks for one; a handle is
\* acquired only by a load that finds none stored, a stored handle is never
\* replaced, and every load that gets past the session step holds the
\* stored handle.
C13_SessionOnce ==
    /\ sessionCache = None
    /\ [][ /\ sessionCache # None => sessionCache' = sessionCache
           /\ log' = Append(log, "session_acquired") =>
                 (sessionCache = None /\ pc = "session")
           /\ sessionCache' # sessionCache =>
                 log' = Append(log, "session_acquired")
           /\ (pc = "session" /\ pc' = "header") =>
                 (session' # None /\ session' = sessionCache') ]_vars

\* A later load, served the handle an earlier load acquired.
C13_Witness ==
    /\ pc = "done"
    /\ now > 0
    /\ Has(log, "session_cached")
    /\ ~Has(log, "session_acquired")
    /\ session = sessionCache
    /\ session # None

\* The steps of a load that stay inside the process.
LocalSteps ==
    {"session_cached", "session_acquired", "session_failed", "cache_read",
     "cache_hit", "cache_miss", "cache_expired", "derive", "render"}

\* C14: over any sequence of loads and button presses, every operation a
\* load sends to the warehouse is the network or the customer aggregate
\* query, and no step of the page changes warehouse data.
C14_ReadOnly ==
    /\ [](\A i \in 1..Len(log) :
             log[i] \notin LocalSteps => log[i] \in Queries)
    /\ [][warehouse' = warehouse]_vars

\* A load started by a button press that ran both queries and rendered the
\* report.
C14_Witness ==
    /\ pc = "done"
    /\ click = "strategic"
    /\ Has(log, "network_query") /\ Has(log, "customer_query")
    /\ Has(rendered, "insights_card")

\* The blocks every live rendering starts with.
LiveRun == <<"kpi_heading", "kpi_grid", "summary_card", "action_center">>

\* C15: a load that ran to its end rendered the live block or the preview
\* block and not both; it rendered the preview exactly when the aggregation
\* returned the all-None triple; the action buttons are there only with
\* the live block.
C15_OneBlock ==
    pc = "done" =>
        LET live == HasRun(rendered, LiveRun)
            preview == HasRun(rendered, PreviewRun)
        IN  /\ live # preview
            /\ live => \A i \in 1..Len(PreviewRun) :
                           ~Has(rendered, PreviewRun[i])
            /\ preview => \A i \in 1..Len(LiveRun) :
                              ~Has(rendered, LiveRun[i])
            /\ preview <=> ret = Unavailable
            /\ Has(rendered, "action_center") <=> live
            /\ buttonsOffered <=> live
            /\ (reportText # "none"
                  \/ Has(rendered, "insights_card")
                  \/ Has(rendered, "recommendation_list")) => live

\* A finished load that re-queried after the entry expired, got the
\* all-None triple and rendered the preview without the buttons.
C15_Witness ==
    /\ pc = "done"
    /\ now >= CacheTtl
    /\ ret = Unavailable
    /\ HasRun(rendered, PreviewRun)
    /\ ~Has(rendered, "action_center")
    /\ Has(log, "cache_expired")

\* C22: a load renders the demo banner exactly when the demo state has
\* demo_active set; the controller bound is the stand-in, its state is
\* always baseline and inactive, and no load renders the banner.
C22_NoDemoBanner ==
    /\ Binding("create_executive_demo_controller") = "standin"
    /\ ~Has(rendered, "demo_banner")
    /\ Has(rendered, "page_header") =>
          (Has(rendered, "demo_banner") <=> DemoState.demo_active)
    /\ pc \in {"ai_init", "load", "gate", "nav", "done"} =>
          (Has(rendered, "page_header")
             /\ DemoState.current_scenario = "baseline")

\* A finished load with the page header and no demo banner.
C22_Witness ==
    /\ pc = "done"
    /\ HasRun(rendered, <<"css", "sidebar", "page_header">>)
    /\ ~Has(rendered, "demo_banner")

\* This load ran the body of load_executive_dashboard_data.
Uncached == Has(log, "cache_miss") \/ Has(log, "cache_expired")

\* C24: a run of the body issues the network query first; it issues the
\* customer query after it unless the network query raised, so also when
\* the network query returned no row and the run returns the all-None
\* triple.
C24_QueryOrder ==
    /\ Before({"network_query"}, {"customer_query"})
    /\ Uncached <=> Has(log, "network_query")
    /\ Has(log, "customer_query") => Has(log, "network_query")
    /\ netOutcome = "raised" =>
          (~Has(log, "customer_query") /\ custOutcome = "not_issued"
             /\ ret = Unavailable)
    /\ netOutcome \in {"empty", "row"} =>
          (Has(log, "customer_query") /\ custOutcome # "not_issued")
    /\ netOutcome = "empty" => ret = Unavailable

\* A finished load whose network query returned no row and whose customer
\* query ran all the same.
C24_Witness ==
    /\ pc = "done"
    /\ netOutcome = "empty"
    /\ custOutcome = "row"
    /\ log = <<"session_acquired", "cache_read", "cache_miss",
               "network_query", "customer_query", "render">>
    /\ ret = Unavailable

\* C25: a load that cannot obtain the session renders the error box and
\* halts with nothing rendered after it; nothing is stored for the failure,
\* and the load after it asks for the session with none stored, so the
\* acquisition is attempted again.
C25_FailureNotMemoized ==
    /\ [](Has(log, "session_failed") =>
            /\ pc = "halted"
            /\ rendered = <<"css", "sidebar", "error_box">>
            /\ sessionCache = None
            /\ session = None
            /\ ENABLED StartLoad)
    /\ [](pc = "halted" => Has(log, "session_failed"))
    /\ []((pc = "session" /\ sessionCache = None) =>
            (ENABLED GetSessionAcquired /\ ~ENABLED GetSessionCached))
    /\ [][(pc = "halted" /\ pc' # "halted") =>
            (pc' = "session" /\ sessionCache' = None)]_vars

\* A load halted at the session step.
C25_Witness ==
    /\ pc = "halted"
    /\ log = <<"session_failed">>
    /\ rendered[Len(rendered)] = "error_box"
    /\ sessionCache = None

---------------------------------------------------------------------------
(* SpecKpi: the KPI derivation on its own, over every pair of rows drawn   *)
(* from the sets below.                                                    *)

\* Counts a COUNT(...) column is drawn from, None for a missing value.
CountInputs ==
    {None} \cup {Some(n) : n \in 0..MaxCount}
           \cup {Some(950), Some(1000), Some(1234567)}

\* AVG_SUCCESS_RATE in thousandths.
RateInputs == {None, Some(0), Some(1), Some(950), Some(RateScale)}

\* AVG_SENTIMENT in hundredths; 150 lies outside the nominal -1..1.
SentimentInputs ==
    {None, Some(0 - SentimentScale), Some(-50), Some(0), Some(1), Some(37),
     Some(SentimentScale), Some(150)}

NetworkInputs ==
    {NetworkRow(t, r, c, p) :
        t \in CountInputs, r \in RateInputs,
        c \in {None, Some(0), Some(3)}, p \in CountInputs}

CustomerInputs == {CustomerRow(s) : s \in SentimentInputs}

\* The page at rest while the derivation is examined alone.
PageIdle ==
    /\ PageInit
    /\ aiModule = "fallback"

\* Every sentiment from -1 to 1 in steps of one hundredth, and every
\* success rate from 0 to 1 in steps of one thousandth.
SentimentSweep ==
    {CustomerRow(Some(s)) : s \in (0 - SentimentScale)..SentimentScale}

RateSweep ==
    {NetworkRow(Some(1000), Some(r), Some(3), Some(950)) : r \in 0..RateScale}

KpiInit ==
    /\ \/ netRow \in NetworkInputs /\ custRow \in CustomerInputs
       \/ netRow \in NetworkRows /\ custRow \in SentimentSweep
       \/ netRow \in RateSweep /\ custRow \in CustomerRows
    /\ kpiPc = "input"
    /\ kpiOut = [raised |-> FALSE, kpis |-> <<>>]

\* The `if network_data and customer_data:` block applied to the two rows.
Derive ==
    /\ kpiPc = "input"
    /\ kpiOut' = DeriveKpis(netRow, custRow)
    /\ kpiPc' = "derived"
    /\ UNCHANGED <<netRow, custRow, pageVars, compVars, importVars>>

\* create_executive_dashboard(exec_kpis) of the live branch, on the mapping
\* just derived.
RenderDashboard ==
    /\ kpiPc = "derived"
    /\ ~kpiOut.raised
    /\ compOut' = StandinExecutiveDashboard(kpiOut.kpis)
    /\ kpiPc' = "rendered"
    /\ UNCHANGED <<netRow, custRow, kpiOut, comp, coll, text, compPc, pageVars,
                   importVars>>

InitKpi == PageIdle /\ KpiInit /\ CompIdle /\ ImportIdle

NextKpi ==
    \/ Derive
    \/ RenderDashboard

SpecKpi == InitKpi /\ [][NextKpi]_vars

\* A column with 0 put in place of None.
ZeroIfNone(x) == IF x = None THEN 0 ELSE x[1]

\* C3: Premium Performance is a whole percentage in 0..100 for every pair
\* of non-negative counts, total_towers = 0 and None included.
C3_PremiumInRange ==
    (kpiPc = "derived" /\ ~kpiOut.raised) =>
        \E n \in 0..100 :
            KpiValue(kpiOut.kpis, "Premium Performance") = ToString(n) \o "%"

\* The six formulas of the specification on rows whose None columns were
\* replaced by 0 beforehand.
C5_Expected(net, cust) ==
    LET rate == ZeroIfNone(net.AVG_SUCCESS_RATE)
        total == ZeroIfNone(net.TOTAL_TOWERS)
        critical == ZeroIfNone(net.CRITICAL_ISSUES)
        premium == ZeroIfNone(net.PREMIUM_TOWERS)
        sentiment == ZeroIfNone(cust.AVG_SENTIMENT)
    IN  << FormatOneDecimal(RoundHalfEven(rate * 1000, RateScale)) \o "%",
           FormatThousands(total),
           FormatOneDecimal(
               RoundHalfEven((sentiment + SentimentScale) * 500,
                             SentimentScale)) \o "%",
           "$2.8M",
           ToString(critical),
           ToString(RoundHalfEven(premium * 100,
                                  IF total > 1 THEN total ELSE 1)) \o "%" >>

\* C5: with both rows present the derivation never raises, whichever
\* columns are None, and every KPI value is its formula with 0 for None.
C5_NullsAreZero ==
    kpiPc = "derived" =>
        /\ ~kpiOut.raised
        /\ Len(kpiOut.kpis) = 6
        /\ \A i \in 1..6 :
               kpiOut.kpis[i].value = C5_Expected(netRow, custRow)[i]

\* A derivation from rows in which some columns are None and others not.
C5_Witness ==
    /\ kpiPc = "derived"
    /\ netRow.TOTAL_TOWERS = None
    /\ netRow.AVG_SUCCESS_RATE = None
    /\ netRow.PREMIUM_TOWERS = Some(3)
    /\ netRow.CRITICAL_ISSUES = None
    /\ custRow.AVG_SENTIMENT = None
    /\ KpiValue(kpiOut.kpis, "Premium Performance") = "300%"

\* C10: for a sentiment s in -1..1 Customer Satisfaction is (s + 1) * 50
\* with one decimal and "%", between 0.0% and 100.0%; -1, 0 and 1 give
\* 0.0%, 50.0% and 100.0%.
C10_Satisfaction ==
    (kpiPc = "derived" /\ custRow.AVG_SENTIMENT # None
        /\ custRow.AVG_SENTIMENT[1] \in (0 - SentimentScale)..SentimentScale)
    => LET s == custRow.AVG_SENTIMENT[1]
           v == KpiValue(kpiOut.kpis, "Customer Satisfaction")
       IN  /\ ~kpiOut.raised
           /\ \E t \in 0..1000 :
                 /\ t * SentimentScale = (s + SentimentScale) * 500
                 /\ v = FormatOneDecimal(t) \o "%"
           /\ s = 0 - SentimentScale => v = "0.0%"
           /\ s = 0 => v = "50.0%"
           /\ s = SentimentScale => v = "100.0%"

\* A derivation from the lowest sentiment, shown as 0.0%.
C10_Witness ==
    /\ kpiPc = "derived"
    /\ custRow.AVG_SENTIMENT = Some(0 - SentimentScale)
    /\ KpiValue(kpiOut.kpis, "Customer Satisfaction") = "0.0%"

\* n written in groups of three digits separated by ",", for n below 10^9.
C11_Grouped(n) ==
    LET ones == n % 1000
        thousands == (n \div 1000) % 1000
        millions == n \div 1000000
        group(k) == (IF k < 100 THEN "0" ELSE "") \o (IF k < 10 THEN "0" ELSE "")
                        \o ToString(k)
    IN  IF n < 1000 THEN ToString(n)
        ELSE IF n < 1000000 THEN ToString(thousands) \o "," \o group(ones)
        ELSE ToString(millions) \o "," \o group(thousands)
                 \o "," \o group(ones)

\* C11: for a network row without a None column, Network Uptime is the
\* rate times 100 with one decimal and "%", Active Infrastructure the total
\* with thousands separators, Risk Incidents the count as it is, Premium
\* Performance premium / max(total, 1) * 100 as the nearest whole percent;
\* total 1000, rate 0.95, critical 3, premium 950 give 95.0%, 1,000, 3, 95%.
C11_NetworkKpis ==
    (kpiPc = "derived" /\ netRow.TOTAL_TOWERS # None
        /\ netRow.AVG_SUCCESS_RATE # None /\ netRow.CRITICAL_ISSUES # None
        /\ netRow.PREMIUM_TOWERS # None)
    => LET total == netRow.TOTAL_TOWERS[1]
           rate == netRow.AVG_SUCCESS_RATE[1]
           critical == netRow.CRITICAL_ISSUES[1]
           premium == netRow.PREMIUM_TOWERS[1]
           d == IF total > 1 THEN total ELSE 1
           q == (premium * 100) \div d
           v(name) == KpiValue(kpiOut.kpis, name)
       IN  /\ ~kpiOut.raised
           /\ \E t \in 0..(100 * 10) :
                 /\ t * RateScale = rate * 100 * 10
                 /\ v("Network Uptime")
                       = ToString(t \div 10) \o "." \o ToString(t % 10) \o "%"
           /\ v("Active Infrastructure") = C11_Grouped(total)
           /\ v("Risk Incidents") = ToString(critical)
           /\ \E n \in {q, q + 1} :
                 /\ 2 * (premium * 100 - n * d) <= d
                 /\ 2 * (n * d - premium * 100) <= d
                 /\ v("Premium Performance") = ToString(n) \o "%"
           /\ (total = 1000 /\ rate = 950 /\ critical = 3 /\ premium = 950)
                 => /\ v("Network Uptime") = "95.0%"
                    /\ v("Active Infrastructure") = "1,000"
                    /\ v("Risk Incidents") = "3"
                    /\ v("Premium Performance") = "95%"

\* The derivation from total 1000, rate 0.95, 3 critical, 950 premium.
C11_Witness ==
    /\ kpiPc = "derived"
    /\ netRow = NetworkRow(Some(1000), Some(950), Some(3), Some(950))
    /\ KpiValue(kpiOut.kpis, "Active Infrastructure") = "1,000"
    /\ KpiValue(kpiOut.kpis, "Network Uptime") = "95.0%"

\* The KPI names in the order of the specification.
C16_Names ==
    <<"Network Uptime", "Active Infrastructure", "Customer Satisfaction",
      "Revenue Protection", "Risk Incidents", "Premium Performance">>

\* C16: the derived mapping has the six entries in the order Network
\* Uptime, Active Infrastructure, Customer Satisfaction, Revenue
\* Protection, Risk Incidents, Premium Performance, and the dashboard
\* writes them in that order, the entry at index i (from 0) into column
\* i mod min(4, 6).
C16_OrderAndColumns ==
    /\ (kpiPc \in {"derived", "rendered"} /\ ~kpiOut.raised) =>
          /\ Len(kpiOut.kpis) = 6
          /\ \A i \in 1..6 : kpiOut.kpis[i].name = C16_Names[i]
    /\ kpiPc = "rendered" =>
          /\ ~compOut.raised
          /\ compOut.cols = 4
          /\ Len(compOut.items) = 6
          /\ \A i \in 1..6 :
                /\ compOut.items[i].item = kpiOut.kpis[i]
                /\ compOut.items[i].item.name = C16_Names[i]
                /\ compOut.items[i].place = (i - 1) % 4

\* A rendered dashboard whose fifth entry, Risk Incidents, is in the first
\* column again.
C16_Witness ==
    /\ kpiPc = "rendered"
    /\ compOut.items[5].item.name = "Risk Incidents"
    /\ compOut.items[5].place = 0
    /\ compOut.items[4].place = 3

\* The six trend figures in tenths: 2.1, 0.8, -1.2, 5.7, -8.3, 3.4.
C20_Trends == <<21, 8, -12, 57, -83, 34>>

\* C20: whatever the two rows, the derived mapping shows Revenue
\* Protection as $2.8M and the trends 2.1, 0.8, -1.2, 5.7, -8.3, 3.4, so
\* any two derivations agree on these fields.
C20_FixedFields ==
    (kpiPc \in {"derived", "rendered"} /\ ~kpiOut.raised) =>
        /\ KpiValue(kpiOut.kpis, "Revenue Protection") = "$2.8M"
        /\ Len(kpiOut.kpis) = Len(C20_Trends)
        /\ \A i \in 1..Len(C20_Trends) : kpiOut.kpis[i].trend = C20_Trends[i]

\* A derivation from rows unlike the example's: a seven-digit tower count
\* and a sentiment above the nominal range.
C20_Witness ==
    /\ kpiPc = "derived"
    /\ netRow.TOTAL_TOWERS = Some(1234567)
    /\ custRow.AVG_SENTIMENT = Some(150)
    /\ KpiValue(kpiOut.kpis, "Active Infrastructure") = "1,234,567"
    /\ KpiValue(kpiOut.kpis, "Revenue Protection") = "$2.8M"
    /\ kpiOut.kpis[5].trend = -83

---------------------------------------------------------------------------
(* SpecComp: one call of a component that takes a collection, over every   *)
(* collection of at most MaxItems elements.                                *)

RECURSIVE SeqsUpTo(_, _)
SeqsUpTo(S, n) ==
    IF n = 0 THEN {<<>>}
    ELSE LET shorter == SeqsUpTo(S, n - 1)
         IN  shorter \cup {Append(q, x) : q \in shorter, x \in S}

Collections == SeqsUpTo({"a", "b"}, MaxItems)

\* The components with a recommendations or metrics parameter, by version.
CollectionComponents ==
    {"ds.create_ai_recommendation_list", "ds.create_ai_metrics_dashboard",
     "ds.create_metric_grid", "standin.create_ai_recommendation_list",
     "standin.create_ai_metrics_dashboard",
     "standin.create_executive_dashboard",
     "standin.create_executive_summary_card"}

\* The components with a response, insight or message parameter.
TextComponents ==
    {"ds.format_ai_response", "standin.format_ai_response",
     "standin.format_ai_response_util", "ds.create_ai_insights_card",
     "standin.create_ai_insights_card", "ds.create_ai_loading_spinner",
     "standin.create_ai_loading_spinner"}

\* The texts handed to them: absent, empty, plain, and one with a
\* backslash-n pair as the AI service escapes a line break.
Texts == {None, Some(""), Some("Towers are healthy"),
          Some("Line one\\nLine two")}

FallbackMethods ==
    {"FallbackAnalytics.generate_executive_summary",
     "FallbackAnalytics.analyze_network_issues",
     "FallbackProcessor.ai_complete"}

\* The components with an alert_type or box_type parameter, and the
\* types handed to them: the four known ones and others.
TypedComponents ==
    {"standin.create_executive_alert_banner", "ds.create_info_box"}

AlertTypes ==
    {None, Some("info"), Some("success"), Some("warning"), Some("error"),
     Some("critical"), Some("SUCCESS"), Some("")}

CompInit ==
    /\ \/ comp \in CollectionComponents /\ coll \in Collections /\ text = None
       \/ comp \in TextComponents /\ coll = <<>> /\ text \in Texts
       \/ comp \in FallbackMethods /\ coll \in Collections /\ text = None
       \/ comp \in TypedComponents /\ coll = <<>> /\ text \in AlertTypes
       \/ comp = "ds.execute_query_with_loading" /\ coll \in Collections
             /\ text = None
    /\ compPc = "call"
    /\ compOut = Rendering(FALSE, 0, <<>>)

Returns(name, out) ==
    /\ compPc = "call"
    /\ comp = name
    /\ compOut' = out
    /\ compPc' = "returned"
    /\ UNCHANGED <<comp, coll, text, pageVars, kpiVars, importVars>>

CallDsRecommendationList ==
    Returns("ds.create_ai_recommendation_list", DsAiRecommendationList(coll))

CallDsMetricsDashboard ==
    Returns("ds.create_ai_metrics_dashboard", DsAiMetricsDashboard(coll))

\* columns keeps its default, 3.
CallDsMetricGrid ==
    Returns("ds.create_metric_grid", DsMetricGrid(coll, 3))

CallStandinRecommendationList ==
    Returns("standin.create_ai_recommendation_list",
            StandinAiRecommendationList(coll))

CallStandinMetricsDashboard ==
    Returns("standin.create_ai_metrics_dashboard",
            StandinAiMetricsDashboard(coll))

CallStandinExecutiveDashboard ==
    Returns("standin.create_executive_dashboard",
            StandinExecutiveDashboard(coll))

CallStandinSummaryCard ==
    Returns("standin.create_executive_summary_card",
            StandinExecutiveSummaryCard(coll))

CallDsFormatAiResponse ==
    Returns("ds.format_ai_response", DsFormatAiResponse(text))

CallStandinFormatAiResponse ==
    Returns("standin.format_ai_response", StandinFormatAiResponse(text))

CallStandinFormatAiResponseUtil ==
    Returns("standin.format_ai_response_util",
            StandinFormatAiResponseUtil(text))

CallDsInsightsCard ==
    Returns("ds.create_ai_insights_card", DsAiInsightsCard(text))

CallStandinInsightsCard ==
    Returns("standin.create_ai_insights_card", StandinAiInsightsCard(text))

CallDsLoadingSpinner ==
    Returns("ds.create_ai_loading_spinner", DsAiLoadingSpinner(text))

CallStandinLoadingSpinner ==
    Returns("standin.create_ai_loading_spinner",
            StandinAiLoadingSpinner(text))

CallGenerateExecutiveSummary ==
    Returns("FallbackAnalytics.generate_executive_summary",
            FallbackGenerateExecutiveSummary)

CallAnalyzeNetworkIssues ==
    Returns("FallbackAnalytics.analyze_network_issues",
            FallbackAnalyzeNetworkIssues)

CallAiComplete ==
    Returns("FallbackProcessor.ai_complete", FallbackAiComplete)

CallStandinAlertBanner ==
    Returns("standin.create_executive_alert_banner",
            StandinExecutiveAlertBanner(text))

CallDsInfoBox ==
    Returns("ds.create_info_box", DsInfoBox(text))

\* execute_query_with_loading up to the query: the session obtained and
\* the loading placeholder shown.  coll is what the warehouse holds for
\* the query.
ExecShowLoading ==
    /\ compPc = "call"
    /\ comp = "ds.execute_query_with_loading"
    /\ compOut' = WithEvents(compOut, LoadingShown, <<>>)
    /\ compPc' = "loading"
    /\ UNCHANGED <<comp, coll, text, pageVars, kpiVars, importVars>>

\* get_snowflake_session() finds no session: error box and st.stop(), the
\* run ends inside the call.
ExecSessionStopped ==
    /\ compPc = "call"
    /\ comp = "ds.execute_query_with_loading"
    /\ compOut' = WithEvents(compOut, <<"error_box">>, <<>>)
    /\ compPc' = "halted"
    /\ UNCHANGED <<comp, coll, text, pageVars, kpiVars, importVars>>

\* The query returns its rows.
ExecQueryReturned ==
    /\ compPc = "loading"
    /\ compOut' = WithEvents(compOut, QueryReturned, coll)
    /\ compPc' = "returned"
    /\ UNCHANGED <<comp, coll, text, pageVars, kpiVars, importVars>>

\* The query raises: return pd.DataFrame().
ExecQueryRaised ==
    /\ compPc = "loading"
    /\ compOut' = WithEvents(compOut, QueryRaised, <<>>)
    /\ compPc' = "returned"
    /\ UNCHANGED <<comp, coll, text, pageVars, kpiVars, importVars>>

InitComp == PageIdle /\ KpiIdle /\ CompInit /\ ImportIdle

NextComp ==
    \/ ExecShowLoading
    \/ ExecSessionStopped
    \/ ExecQueryReturned
    \/ ExecQueryRaised
    \/ CallStandinAlertBanner
    \/ CallDsInfoBox
    \/ CallDsFormatAiResponse
    \/ CallStandinFormatAiResponse
    \/ CallStandinFormatAiResponseUtil
    \/ CallDsInsightsCard
    \/ CallStandinInsightsCard
    \/ CallDsLoadingSpinner
    \/ CallStandinLoadingSpinner
    \/ CallGenerateExecutiveSummary
    \/ CallAnalyzeNetworkIssues
    \/ CallAiComplete
    \/ CallDsRecommendationList
    \/ CallDsMetricsDashboard
    \/ CallDsMetricGrid
    \/ CallStandinRecommendationList
    \/ CallStandinMetricsDashboard
    \/ CallStandinExecutiveDashboard
    \/ CallStandinSummaryCard

SpecComp == InitComp /\ [][NextComp]_vars

\* C9: every component given an empty collection returns without raising
\* and writes no item for it.
C9_EmptyRendersNothing ==
    (compPc = "returned" /\ comp \in CollectionComponents /\ coll = <<>>) =>
        (~compOut.raised /\ compOut.items = <<>>)

\* sub occurs in s.
Contains(s, sub) ==
    \E i \in 1..(Len(s) - Len(sub) + 1) : SubSeq(s, i, i + Len(sub) - 1) = sub

\* C17: every text a placeholder method returns, both values of the
\* analyze_network_issues dict included, contains "unavailable" or
\* "updated".
C17_MarkedTexts ==
    (compPc = "returned" /\ comp \in FallbackMethods) =>
        /\ compOut.value # <<>>
        /\ \A i \in 1..Len(compOut.value) :
              \/ Contains(compOut.value[i], "unavailable")
              \/ Contains(compOut.value[i], "updated")

\* The versions of format_ai_response: the design system's, the stand-in
\* the page binds under that name, and the stand-in bound as
\* format_ai_response_util.
FormatVersions ==
    {"ds.format_ai_response", "standin.format_ai_response",
     "standin.format_ai_response_util"}

\* C18: whichever version is bound, format_ai_response given an absent or
\* empty response writes the warning and neither title nor response block,
\* and given a non-empty response writes that text as it is.
C18_EmptyWarns ==
    (compPc = "returned" /\ comp \in FormatVersions) =>
        /\ ~compOut.raised
        /\ (text = None \/ text = Some("")) =>
              (compOut.warning /\ ~compOut.title /\ compOut.items = <<>>)
        /\ (text # None /\ text # Some("")) =>
              (~compOut.warning /\ compOut.items = Block(text[1]))

\* Two renderings with the same logical content: both raise, or neither
\* does and they agree on the title, the columns and the items in order.
SameContent(a, b) ==
    /\ a.raised = b.raised
    /\ ~a.raised => (a.title = b.title /\ a.cols = b.cols /\ a.items = b.items)

\* C19: each stand-in of an AI component renders, on every input, what the
\* design-system version of the same name renders on it, and raises where
\* that one raises.
C19_StandinsEquivalent ==
    compPc = "returned" =>
        /\ comp = "standin.create_ai_insights_card" =>
              SameContent(compOut, DsAiInsightsCard(text))
        /\ comp = "standin.create_ai_metrics_dashboard" =>
              SameContent(compOut, DsAiMetricsDashboard(coll))
        /\ comp = "standin.format_ai_response" =>
              SameContent(compOut, DsFormatAiResponse(text))
        /\ comp = "standin.create_ai_loading_spinner" =>
              SameContent(compOut, DsAiLoadingSpinner(text))
        /\ comp = "standin.create_ai_recommendation_list" =>
              SameContent(compOut, DsAiRecommendationList(coll))

\* C21: for every alert_type the banner writes exactly one element, in one
\* of the four styles: success, warning and error in their own, every other
\* value as info; create_info_box picks the info icon for every box_type
\* outside the four known ones.
C21_BannerStyles ==
    /\ (compPc = "returned"
          /\ comp = "standin.create_executive_alert_banner") =>
          /\ ~compOut.raised
          /\ Len(compOut.items) = 1
          /\ compOut.items[1].item
                \in {"st.info", "st.success", "st.warning", "st.error"}
          /\ text = Some("success") => compOut.items[1].item = "st.success"
          /\ text = Some("warning") => compOut.items[1].item = "st.warning"
          /\ text = Some("error") => compOut.items[1].item = "st.error"
          /\ text \notin {Some("success"), Some("warning"), Some("error")}
                => compOut.items[1].item = "st.info"
    /\ (compPc = "returned" /\ comp = "ds.create_info_box"
          /\ text \notin {Some("info"), Some("success"), Some("warning"),
                          Some("error")}) =>
          /\ ~compOut.raised
          /\ Len(compOut.items) = 1
          /\ compOut.items[1].item.icon = "information"

\* A banner asked for with a type the function does not know, written as
\* info.
C21_Witness ==
    /\ compPc = "returned"
    /\ comp = "standin.create_executive_alert_banner"
    /\ text = Some("critical")
    /\ compOut.items = Block("st.info")

\* Where an event lies in a sequence of events, 0 if nowhere.
At(ev, e) == IF Has(ev, e) THEN CHOOSE i \in 1..Len(ev) : ev[i] = e ELSE 0

\* Each event of ev occurs once.
Once(ev) == \A i, j \in 1..Len(ev) : ev[i] = ev[j] => i = j

\* C26: a call of execute_query_with_loading that has its session shows
\* the loading placeholder before it issues the query and clears it before
\* it returns, whether the query returned or raised; when the query raised
\* the call still returns, with an empty result, after the error box.
C26_PlaceholderCleared ==
    (comp = "ds.execute_query_with_loading" /\ compPc # "halted") =>
        LET ev == Events(compOut)
        IN  /\ ~compOut.raised
            /\ Once(ev)
            /\ Has(ev, "query_issued") =>
                  (0 < At(ev, "placeholder_shown")
                     /\ At(ev, "placeholder_shown") < At(ev, "query_issued"))
            /\ compPc = "loading" => ev = <<"placeholder_shown">>
            /\ compPc = "returned" =>
                  /\ Has(ev, "query_issued")
                  /\ At(ev, "query_issued") < At(ev, "placeholder_cleared")
                  /\ Has(ev, "error_box") =>
                        (At(ev, "placeholder_cleared") < At(ev, "error_box")
                           /\ compOut.value = <<>>)
                  /\ ~Has(ev, "error_box") => compOut.value = coll

\* A call whose query raised although the warehouse holds rows: the
\* placeholder shown and cleared, the error box, an empty result.
C26_Witness ==
    /\ comp = "ds.execute_query_with_loading"
    /\ compPc = "returned"
    /\ coll = <<"a", "b">>
    /\ Events(compOut) = <<"placeholder_shown", "query_issued",
                           "placeholder_cleared", "error_box">>
    /\ compOut.value = <<>>

---------------------------------------------------------------------------
(* SpecImport: the import block at the top of main.py (17-85), run against *)
(* a design system that defines the base names and any part of the AI and  *)
(* executive names, or that lacks one base name.                           *)

RECURSIVE SubsetsOf(_)
SubsetsOf(S) ==
    IF S = {} THEN {{}}
    ELSE LET x == CHOOSE y \in S : TRUE
             rest == SubsetsOf(S \ {x})
         IN  rest \cup {T \cup {x} : T \in rest}

ImportInit ==
    /\ \/ \E S \in SubsetsOf(AiExecutiveComponents) :
             dsDefines = BaseComponents \cup S
       \/ \E n \in BaseComponents :
             dsDefines = (BaseComponents \ {n}) \cup DesignSystemDefines
    /\ bindings = Unbound
    /\ importPc = "try"

\* try: from utils.design_system import (the nineteen names)
ImportFull ==
    /\ importPc = "try"
    /\ LET r == ImportFrom(FullImportList, dsDefines, bindings)
       IN  /\ bindings' = r.bound
           /\ importPc' = IF r.raised THEN "except" ELSE "done"
    /\ UNCHANGED <<dsDefines, pageVars, kpiVars, compVars>>

\* except ImportError: the base import again, then the ten definitions.  An
\* ImportError of the base import has no handler.
ImportFallback ==
    /\ importPc = "except"
    /\ LET r == ImportFrom(BaseImportList, dsDefines, bindings)
       IN  IF r.raised
           THEN /\ bindings' = r.bound
                /\ importPc' = "crashed"
           ELSE /\ bindings' = DefineStandins(r.bound)
                /\ importPc' = "done"
    /\ UNCHANGED <<dsDefines, pageVars, kpiVars, compVars>>

InitImport == PageIdle /\ KpiIdle /\ CompIdle /\ ImportInit

NextImport ==
    \/ ImportFull
    \/ ImportFallback

SpecImport == InitImport /\ [][NextImport]_vars

\* C23: once the import block is through, the nine base names are bound to
\* the design system; if the design system lacks any name of the full list
\* all ten AI and executive names are bound to stand-ins, those it defines
\* included; the ten are never a mixture of the two kinds.
C23_AllOrNothing ==
    importPc = "done" =>
        /\ \A n \in BaseComponents : bindings[n] = "design_system"
        /\ (\E n \in BaseComponents \cup AiExecutiveComponents :
                n \notin dsDefines)
              => \A n \in AiExecutiveComponents : bindings[n] = "standin"
        /\ \/ \A n \in AiExecutiveComponents : bindings[n] = "standin"
           \/ \A n \in AiExecutiveComponents : bindings[n] = "design_system"

\* The import block through with design_system.py as it is: five AI names
\* defined there, five not, and all ten bound to stand-ins.
C23_Witness ==
    /\ importPc = "done"
    /\ dsDefines = DesignSystemDefines
    /\ bindings["create_ai_insights_card"] = "standin"
    /\ bindings["create_executive_dashboard"] = "standin"
    /\ bindings["create_info_box"] = "design_system"

===========================================================================
